---------------------------- MODULE Spec2Model ----------------------------
(***************************************************************************)
(* Convex hull construction (ConvexPoly::new) and the two point-in-hull    *)
(* tests (is_point_in_polygon, is_point_in_polygon_fast) of src/main.rs,   *)
(* together with the recursive bracketing search binary_search_angles.     *)
(*                                                                         *)
(* Numbers.  The program works on f64.  The model works on points with     *)
(* small integer coordinates, for which the determinant of                 *)
(* Orientation::calc is computed without rounding.  An angle (the result   *)
(* of angle() or wrapped_angle_sub()) is represented by <<x, y, r>>: the    *)
(* primitive integer vector <<x, y>> pointing in its direction, which      *)
(* stands for the real number in [0, 2*pi) that atan2 approximates, and    *)
(* the sign r of the rounding error the f64 value carries.  Angles are     *)
(* compared and subtracted exactly, and r decides between two angles of    *)
(* the same direction.  The centre (h0 + h1 + h2) / 3.0 is rounded, so the *)
(* angle of a query point around it is off by an error of either sign or   *)
(* none: a query draws that sign from Rounding.  The angles of the hull     *)
(* vertices carry no error: two vertices have the same direction around    *)
(* the centre only in a hull whose first three vertices are collinear.     *)
(* The centre is represented by its numerator h0 + h1 + h2 over the        *)
(* denominator CenterDen.                                                  *)
(*                                                                         *)
(* Indices are 0-based as in the source; At(s, i) reads s[i].              *)
(***************************************************************************)
EXTENDS Integers, Sequences, FiniteSets, TLC

VARIABLES points, poly, pc, p, exact, fast, closest_node_by_angle, bs

vars == <<points, poly, pc, p, exact, fast, closest_node_by_angle, bs>>

-----------------------------------------------------------------------------
(* Bounds of the model *)

\* input coordinates range over 0..MaxCoord
MaxCoord == 2
\* longest input sequence handed to ConvexPoly::new
MaxPoints == 5
\* longest slice handed to binary_search_angles in SpecSearch
MaxSlice == 4

\* the divisor of the centre, "/ 3.0"
CenterDen == 3

Coord == 0..MaxCoord
Grid == Coord \X Coord
\* query points reach one unit beyond the input grid on every side
QueryGrid == (-1..(MaxCoord + 1)) \X (-1..(MaxCoord + 1))

-----------------------------------------------------------------------------
(* Vectors *)

At(s, i) == s[i + 1]

Sub(a, b) == <<a[1] - b[1], a[2] - b[2]>>
Cross(a, b) == a[1] * b[2] - a[2] * b[1]
Dot(a, b) == a[1] * b[1] + a[2] * b[2]
Abs(n) == IF n < 0 THEN -n ELSE n

RECURSIVE Gcd(_, _)
Gcd(a, b) == IF b = 0 THEN a ELSE Gcd(b, a % b)

\* the primitive vector in the direction of v (v # <<0, 0>>)
Primitive(v) == LET g == Gcd(Abs(v[1]), Abs(v[2])) IN <<v[1] \div g, v[2] \div g>>

-----------------------------------------------------------------------------
(* Angles *)

\* the signs a rounding error can have
Rounding == {-1, 0, 1}

Sign(n) == IF n < 0 THEN -1 ELSE IF n > 0 THEN 1 ELSE 0

\* fn angle: atan2(y, x) moved into [0, 2*pi); atan2(0, 0) = 0
angle(v) ==
    IF v = <<0, 0>> THEN <<1, 0, 0>>
    ELSE <<Primitive(v)[1], Primitive(v)[2], 0>>

\* the angle a computed with a rounding error of sign err
Rounded(a, err) == <<a[1], a[2], err>>

\* 0 for a direction in [0, pi), 1 for a direction in [pi, 2*pi)
UpperHalf(a) == IF a[2] > 0 \/ (a[2] = 0 /\ a[1] > 0) THEN 0 ELSE 1

\* the direction of angle 0 with a negative error: the value has had 2*pi
\* added and lies just below 2*pi
NearFullTurn(a) == a[1] = 1 /\ a[2] = 0 /\ a[3] < 0

\* a < b on angles of [0, 2*pi)
AngleLess(a, b) ==
    IF NearFullTurn(a) THEN FALSE
    ELSE IF NearFullTurn(b) THEN TRUE
    ELSE \/ UpperHalf(a) < UpperHalf(b)
         \/ UpperHalf(a) = UpperHalf(b) /\ Cross(a, b) > 0
         \/ a[1] = b[1] /\ a[2] = b[2] /\ a[3] < b[3]

AngleLeq(a, b) == ~AngleLess(b, a)

\* fn wrapped_angle_sub: a - sub, plus 2*pi when negative
wrapped_angle_sub(a, sub) ==
    Rounded(angle(<<Dot(sub, a), Cross(sub, a)>>), Sign(a[3] - sub[3]))

\* (a - b).abs() for two angles of [0, 2*pi)
AbsDiff(a, b) == IF AngleLess(a, b) THEN wrapped_angle_sub(b, a) ELSE wrapped_angle_sub(a, b)

-----------------------------------------------------------------------------
(* Orientation *)

Leftwards == "Leftwards"
Collinear == "Collinear"
Rightwards == "Rightwards"

\* Matrix3::new(1,1,1, s.x,p.x,e.x, s.y,p.y,e.y).determinant(), expanded along
\* the first row of the column-major matrix as cgmath does
determinant(s, q, e) ==
    1 * (q[1] * e[2] - q[2] * e[1])
      - s[1] * (1 * e[2] - q[2] * 1)
      + s[2] * (1 * e[1] - q[1] * 1)

\* Orientation::calc
calc(s, q, e) ==
    LET sign == determinant(s, q, e) IN
    IF sign < 0 THEN Rightwards
    ELSE IF sign > 0 THEN Leftwards
    ELSE Collinear

-----------------------------------------------------------------------------
(* ConvexPoly::new *)

\* slice::sort_by is stable: x goes behind every element that is not greater
RECURSIVE InsertByY(_, _)
InsertByY(s, x) ==
    IF s = <<>> THEN <<x>>
    ELSE LET last == s[Len(s)] IN
         IF last[2] <= x[2] THEN Append(s, x)
         ELSE Append(InsertByY(SubSeq(s, 1, Len(s) - 1), x), last)

RECURSIVE SortByY(_)
SortByY(s) ==
    IF s = <<>> THEN <<>>
    ELSE InsertByY(SortByY(SubSeq(s, 1, Len(s) - 1)), s[Len(s)])

RECURSIVE InsertByAngle(_, _, _)
InsertByAngle(s, x, smallest) ==
    IF s = <<>> THEN <<x>>
    ELSE LET last == s[Len(s)] IN
         IF AngleLeq(angle(Sub(last, smallest)), angle(Sub(x, smallest))) THEN Append(s, x)
         ELSE Append(InsertByAngle(SubSeq(s, 1, Len(s) - 1), x, smallest), last)

RECURSIVE SortByAngle(_, _)
SortByAngle(s, smallest) ==
    IF s = <<>> THEN <<>>
    ELSE InsertByAngle(SortByAngle(SubSeq(s, 1, Len(s) - 1), smallest), s[Len(s)], smallest)

\* the two sorts of new: by y, then points[1..] by angle around points[0]
SortedPoints(pts) ==
    LET byY == SortByY(pts) IN
    <<byY[1]>> \o SortByAngle(Tail(byY), byY[1])

\* PopRightTurns with the sign convention inverted: pops on Leftwards
RECURSIVE PopLeftTurns(_, _)
PopLeftTurns(hull, q) ==
    IF Len(hull) > 1 /\ calc(hull[Len(hull) - 1], hull[Len(hull)], q) = Leftwards
    THEN PopLeftTurns(SubSeq(hull, 1, Len(hull) - 1), q)
    ELSE hull

\* the while loop of the scan: pop while the last two hull points and q turn right
RECURSIVE PopRightTurns(_, _)
PopRightTurns(hull, q) ==
    IF Len(hull) > 1 /\ calc(hull[Len(hull) - 1], hull[Len(hull)], q) = Rightwards
    THEN PopRightTurns(SubSeq(hull, 1, Len(hull) - 1), q)
    ELSE hull

\* the for loop of the scan, from index i (0-based) on
RECURSIVE Scan(_, _, _)
Scan(pts, i, hull) ==
    IF i >= Len(pts) THEN hull
    ELSE Scan(pts, i + 1, Append(PopRightTurns(hull, At(pts, i)), At(pts, i)))

\* shifted_hull[i] = hull[(i + 3) % hull.len()]
ShiftHull(hull) == [i \in 1..Len(hull) |-> At(hull, ((i - 1) + 3) % Len(hull))]

RECURSIVE MinOf(_)
MinOf(s) == IF Len(s) = 1 THEN s[1]
            ELSE LET m == MinOf(Tail(s)) IN IF s[1] < m THEN s[1] ELSE m
RECURSIVE MaxOf(_)
MaxOf(s) == IF Len(s) = 1 THEN s[1]
            ELSE LET m == MaxOf(Tail(s)) IN IF s[1] > m THEN s[1] ELSE m

NoPoly == [all |-> <<>>, hull |-> <<>>, x_min |-> 0, x_max |-> 0, y_min |-> 0, y_max |-> 0]

\* ConvexPoly::new on a non-empty vector
ConvexPoly_new(pts) ==
    LET sorted == SortedPoints(pts)
        hull == Scan(sorted, 1, <<sorted[1]>>)
        xs == [i \in 1..Len(sorted) |-> sorted[i][1]]
        ys == [i \in 1..Len(sorted) |-> sorted[i][2]]
    IN [all |-> sorted, hull |-> ShiftHull(hull),
        x_min |-> MinOf(xs), x_max |-> MaxOf(xs),
        y_min |-> MinOf(ys), y_max |-> MaxOf(ys)]

-----------------------------------------------------------------------------
(* is_point_in_polygon *)

\* the for loop over the hull edges, from index i (0-based) on
RECURSIVE NoEdgeLeftwards(_, _, _)
NoEdgeLeftwards(hull, q, i) ==
    IF i >= Len(hull) THEN TRUE
    ELSE IF calc(At(hull, i), q, At(hull, (i + 1) % Len(hull))) = Leftwards THEN FALSE
    ELSE NoEdgeLeftwards(hull, q, i + 1)

is_point_in_polygon(pl, q) ==
    IF q[1] < pl.x_min \/ q[1] > pl.x_max \/ q[2] < pl.y_min \/ q[2] > pl.y_max
    THEN FALSE
    ELSE NoEdgeLeftwards(pl.hull, q, 0)

-----------------------------------------------------------------------------
(* binary_search_angles *)

\* the centre as CenterDen times its coordinates
Center(hull) ==
    <<At(hull, 0)[1] + At(hull, 1)[1] + At(hull, 2)[1],
      At(hull, 0)[2] + At(hull, 1)[2] + At(hull, 2)[2]>>

\* angle(&(q - center)): q - center scaled by CenterDen has the same angle
AngleAround(q, center) ==
    angle(<<CenterDen * q[1] - center[1], CenterDen * q[2] - center[2]>>)

Return(i) == [kind |-> "return", low |-> i, high |-> i]
Recurse(l, h) == [kind |-> "recurse", low |-> l, high |-> h]
Panic(what) == [kind |-> what, low |-> 0, high |-> 0]

\* the lowdiff < highdiff comparison of the two-candidate base case
LowIsNearer(pts, low, high, center, search_angle, offset_angle) ==
    LET lowdiff == AbsDiff(wrapped_angle_sub(AngleAround(At(pts, low), center), offset_angle),
                           search_angle)
        highdiff == AbsDiff(wrapped_angle_sub(AngleAround(At(pts, high), center), offset_angle),
                            search_angle)
    IN AngleLess(lowdiff, highdiff)

\* Middle without the low it has to start from
MiddleOfWidth(low, high) == (high - low) \div 2

\* (high + low) / 2
Middle(low, high) == (high + low) \div 2

\* one call of binary_search_angles, up to its return, its panic or its
\* recursive call; middle - 1 is a usize subtraction
BsCall(pts, low, high, center, search_angle, offset_angle) ==
    IF ~(low <= high) THEN Panic("assert")
    ELSE IF low = high THEN Return(low)
    ELSE IF high - low = 1 THEN
        IF LowIsNearer(pts, low, high, center, search_angle, offset_angle)
        THEN Return(low) ELSE Return(high)
    ELSE
        LET middle == Middle(low, high)
            middle_angle == wrapped_angle_sub(AngleAround(At(pts, middle), center), offset_angle)
        IN IF AngleLess(search_angle, middle_angle) THEN
               IF middle = 0 THEN Panic("underflow")
               ELSE IF middle - 1 = high THEN Panic("infinite recursion")
               ELSE Recurse(low, middle)
           ELSE
               IF middle + 1 = low THEN Panic("infinite recursion")
               ELSE Recurse(middle, high)

\* the whole recursion; -1 stands for a panic
RECURSIVE binary_search_angles(_, _, _, _, _, _)
binary_search_angles(pts, low, high, center, search_angle, offset_angle) ==
    LET c == BsCall(pts, low, high, center, search_angle, offset_angle) IN
    IF c.kind = "return" THEN c.low
    ELSE IF c.kind = "recurse"
    THEN binary_search_angles(pts, c.low, c.high, center, search_angle, offset_angle)
    ELSE -1

-----------------------------------------------------------------------------
(* is_point_in_polygon_fast *)

OffsetAngle(hull) == AngleAround(At(hull, 0), Center(hull))

\* search_angle, the angle of q computed with a rounding error of sign err
SearchAngle(hull, q, err) ==
    wrapped_angle_sub(Rounded(AngleAround(q, Center(hull)), err), OffsetAngle(hull))

\* ClosestNode searching the whole hull instead of hull[1..]
ClosestNodeOfWholeHull(hull, q, err) ==
    binary_search_angles(hull, 0, Len(hull) - 2, Center(hull),
                         SearchAngle(hull, q, err), OffsetAngle(hull))

\* closest_node_by_angle
ClosestNode(hull, q, err) ==
    binary_search_angles(Tail(hull), 0, Len(hull) - 2, Center(hull),
                         SearchAngle(hull, q, err), OffsetAngle(hull))

\* the two orientation tests around hull[closest + 1]
BothRightwards(hull, q, closest) ==
    LET left == At(hull, closest)
        mid == At(hull, (closest + 1) % Len(hull))
        right == At(hull, (closest + 2) % Len(hull))
    IN calc(left, q, mid) = Rightwards /\ calc(mid, q, right) = Rightwards

\* is_point_in_polygon_fast: the index the search returned and the result;
\* it panics when poly.hull[2] is out of bounds or the search panics
is_point_in_polygon_fast(pl, q, err) ==
    IF Len(pl.hull) < 3 THEN [panic |-> TRUE, closest_node_by_angle |-> 0, inside |-> FALSE]
    ELSE LET closest == ClosestNode(pl.hull, q, err) IN
         IF closest < 0 THEN [panic |-> TRUE, closest_node_by_angle |-> 0, inside |-> FALSE]
         ELSE [panic |-> FALSE, closest_node_by_angle |-> closest,
               inside |-> BothRightwards(pl.hull, q, closest)]

-----------------------------------------------------------------------------
(* Hull construction followed by queries *)

NoFrame == [points |-> <<>>, low |-> 0, high |-> 0, center |-> <<0, 0>>,
            search_angle |-> <<1, 0, 0>>, offset_angle |-> <<1, 0, 0>>,
            low0 |-> 0, high0 |-> 0, calls |-> 0, kind |-> "none"]

Init ==
    /\ points = <<>>
    /\ poly = NoPoly
    /\ pc = "input"
    /\ p = <<0, 0>>
    /\ exact = FALSE
    /\ fast = FALSE
    /\ closest_node_by_angle = 0
    /\ bs = NoFrame

\* the caller pushes one more point onto the vector it will hand to new
Push(q) ==
    /\ pc = "input"
    /\ Len(points) < MaxPoints
    /\ points' = Append(points, q)
    /\ UNCHANGED <<poly, pc, p, exact, fast, closest_node_by_angle, bs>>

\* ConvexPoly::new(points): the vector is moved into new
New ==
    /\ pc = "input"
    /\ points # <<>>
    /\ poly' = ConvexPoly_new(points)
    /\ points' = <<>>
    /\ pc' = "built"
    /\ UNCHANGED <<p, exact, fast, closest_node_by_angle, bs>>

\* ConvexPoly::new(vec![]): points[0] is out of bounds
NewPanic ==
    /\ pc = "input"
    /\ points = <<>>
    /\ pc' = "panic"
    /\ UNCHANGED <<points, poly, p, exact, fast, closest_node_by_angle, bs>>

\* the rounding errors the angle of q can carry: a hull vertex goes through
\* the very computation that gave the vertex its angle, so it carries none
RoundingOf(hull, q) ==
    IF \E i \in 1..Len(hull) : hull[i] = q THEN {0} ELSE Rounding

\* both tests on the same hull and point, as the callers run them: first the
\* fast test, which may panic, then the exact one; the tests are pure, so
\* every query starts from the hull as built
Query(q, err) ==
    /\ pc = "built"
    /\ err \in RoundingOf(poly.hull, q)
    /\ \E run \in {is_point_in_polygon_fast(poly, q, err)} :
        /\ p' = q
        /\ closest_node_by_angle' = run.closest_node_by_angle
        /\ fast' = run.inside
        /\ exact' = IF run.panic THEN FALSE ELSE is_point_in_polygon(poly, q)
        /\ pc' = IF run.panic THEN "panic" ELSE "queried"
    /\ UNCHANGED <<points, poly, bs>>

Next ==
    \/ \E q \in Grid : Push(q)
    \/ New
    \/ NewPanic
    \/ \E q \in QueryGrid, err \in Rounding : Query(q, err)

Spec == Init /\ [][Next]_vars

-----------------------------------------------------------------------------
(* binary_search_angles on arbitrary slices, one call per step *)

\* the points a slice is drawn from: the centre (1, 1) and its four neighbours
SearchPoints == {<<1, 1>>, <<2, 1>>, <<1, 2>>, <<0, 1>>, <<1, 0>>}
\* CenterDen times the centre
SearchCenters == {<<3, 3>>}
SearchAngles == {<<1, 0, 0>>, <<1, 0, -1>>, <<0, 1, 1>>, <<-1, 0, 0>>, <<-1, -1, 0>>}
OffsetAngles == {<<1, 0, 0>>, <<0, 1, 0>>}

Slices == UNION {[1..n -> SearchPoints] : n \in 1..MaxSlice}

\* a first call with low <= high < points.len()
Frames ==
    {[points |-> s, low |-> l, high |-> h, center |-> c,
      search_angle |-> sa, offset_angle |-> oa,
      low0 |-> l, high0 |-> h, calls |-> 0, kind |-> "call"] :
        s \in Slices, l \in 0..(MaxSlice - 1), h \in 0..(MaxSlice - 1),
        c \in SearchCenters, sa \in SearchAngles, oa \in OffsetAngles}

InitSearch ==
    /\ points = <<>>
    /\ poly = NoPoly
    /\ pc = "search"
    /\ p = <<0, 0>>
    /\ exact = FALSE
    /\ fast = FALSE
    /\ closest_node_by_angle = 0
    /\ bs \in {f \in Frames : f.low <= f.high /\ f.high < Len(f.points)}

FrameCall(f) == BsCall(f.points, f.low, f.high, f.center, f.search_angle, f.offset_angle)

\* the running call calls itself on the narrowed interval
SearchRecurse ==
    /\ pc = "search"
    /\ bs.kind = "call"
    /\ FrameCall(bs).kind = "recurse"
    /\ bs' = [bs EXCEPT !.low = FrameCall(bs).low, !.high = FrameCall(bs).high,
                        !.calls = @ + 1]
    /\ UNCHANGED <<points, poly, pc, p, exact, fast, closest_node_by_angle>>

\* the running call returns an index (kept in low and high) or panics
SearchFinish ==
    /\ pc = "search"
    /\ bs.kind = "call"
    /\ FrameCall(bs).kind # "recurse"
    /\ bs' = [bs EXCEPT !.low = FrameCall(bs).low, !.high = FrameCall(bs).high,
                        !.kind = FrameCall(bs).kind]
    /\ UNCHANGED <<points, poly, pc, p, exact, fast, closest_node_by_angle>>

NextSearch == SearchRecurse \/ SearchFinish

SpecSearch == InitSearch /\ [][NextSearch]_vars

-----------------------------------------------------------------------------
(* Vocabulary of the properties *)

Range(s) == {s[i] : i \in 1..Len(s)}

\* some three of the points are not on one line
NonCollinear(s) ==
    \E i, j, k \in 1..Len(s) : calc(s[i], s[j], s[k]) # Collinear

\* the orientation of the hull vertices i, i + 1, i + 2, cyclically
TurnAt(hull, i) ==
    calc(At(hull, i), At(hull, (i + 1) % Len(hull)), At(hull, (i + 2) % Len(hull)))

StrictlyConvex(hull) ==
    Len(hull) >= 3 /\ \A i \in 0..(Len(hull) - 1) : TurnAt(hull, i) = Leftwards

\* the angle of hull[i] around the centre, relative to the angle of hull[0]
WrappedAngle(hull, i) ==
    wrapped_angle_sub(AngleAround(At(hull, i), Center(hull)), OffsetAngle(hull))

\* h2 is h1 rotated
SameCycle(h1, h2) ==
    /\ Len(h1) = Len(h2)
    /\ \E k \in 0..(Len(h1) - 1) :
          \A i \in 0..(Len(h1) - 1) : At(h2, i) = At(h1, (i + k) % Len(h1))

Reordered(s, f) == [i \in 1..Len(s) |-> s[f[i]]]

\* q lies on the line through the two end points of some hull edge
OnEdgeLine(hull, q) ==
    \E i \in 0..(Len(hull) - 1) :
        calc(At(hull, i), q, At(hull, (i + 1) % Len(hull))) = Collinear

\* the direction of q around the centre lies in the wedge of the hull edge
\* from hull[i] to hull[i + 1]
InWedge(hull, q, i) ==
    LET a == SearchAngle(hull, q, 0) IN
    IF i + 1 < Len(hull)
    THEN AngleLeq(WrappedAngle(hull, i), a) /\ AngleLeq(a, WrappedAngle(hull, i + 1))
    ELSE AngleLeq(WrappedAngle(hull, i), a) \/ a = WrappedAngle(hull, 0)

\* the edges tested after the search returned closest: those that start at
\* hull[closest] and at hull[closest + 1]
EdgeTested(hull, closest, i) == i = closest \/ i = (closest + 1) % Len(hull)

\* the wrapped angles of the searched part of the slice of frame f do not decrease
FrameSorted(f) ==
    \A i \in f.low0..(f.high0 - 1) :
        AngleLeq(wrapped_angle_sub(AngleAround(At(f.points, i), f.center), f.offset_angle),
                 wrapped_angle_sub(AngleAround(At(f.points, i + 1), f.center), f.offset_angle))

-----------------------------------------------------------------------------
(* Properties *)

\* C1: on a hull built from at least 3 non-collinear points the fast test
\* returns what the exact test returns, for every query point, the points on
\* the hull's edges and vertices included.
C1_FastAgreesWithExact ==
    (pc = "queried" /\ NonCollinear(poly.all)) => fast = exact

\* C2: every point of an input with at least 3 non-collinear points is
\* classified inside-or-on the hull built from that input by the exact test.
C2_InputPointsInside ==
    (pc = "queried" /\ NonCollinear(poly.all) /\ p \in Range(poly.all)) => exact

\* C3: ConvexPoly::new returns no ConvexPoly for an input whose points are all
\* collinear: whatever it returns for 3 or more points was built from points
\* that are not all on one line.
C3_CollinearInputRejected ==
    (pc = "built" /\ Len(poly.all) >= 3) => NonCollinear(poly.all)

\* C4: in a returned hull (of a non-collinear input) no two cyclically
\* consecutive vertices are equal and no three cyclically consecutive
\* vertices are collinear.
C4_EveryVertexIsATurn ==
    (pc = "built" /\ NonCollinear(poly.all)) =>
        \A i \in 0..(Len(poly.hull) - 1) :
            /\ At(poly.hull, i) # At(poly.hull, (i + 1) % Len(poly.hull))
            /\ TurnAt(poly.hull, i) # Collinear

\* C5: the hull of every permutation of the input has the same vertex set
\* and is the same cyclic sequence up to rotation.
C5_PermutationInvariant ==
    (pc = "built" /\ NonCollinear(poly.all)) =>
        \A f \in Permutations(1..Len(poly.all)) :
            LET other == ConvexPoly_new(Reordered(poly.all, f)).hull IN
            /\ Range(other) = Range(poly.hull)
            /\ SameCycle(poly.hull, other)

\* C6: a returned hull with at least 3 vertices has no three cyclically
\* consecutive vertices that turn Rightwards, the two triples that wrap
\* around the end included.
C6_NeverClockwise ==
    (pc = "built" /\ Len(poly.hull) >= 3) =>
        \A i \in 0..(Len(poly.hull) - 1) : TurnAt(poly.hull, i) # Rightwards

\* C6 witness: a hull of at least 4 vertices built from an input that also
\* held a point the scan popped.
C6_Witness ==
    /\ pc = "built"
    /\ Len(poly.hull) >= 4
    /\ Len(poly.all) > Len(poly.hull)
    /\ StrictlyConvex(poly.hull)

\* C7: for a hull built from at least 3 non-collinear points the angles of
\* hull[1], ..., hull[len-1] around the centre, relative to the angle of
\* hull[0] and wrapped into [0, 2*pi), do not decrease.
C7_HullAnglesSorted ==
    (pc = "built" /\ NonCollinear(poly.all)) =>
        \A i \in 1..(Len(poly.hull) - 2) :
            AngleLeq(WrappedAngle(poly.hull, i), WrappedAngle(poly.hull, i + 1))

\* C8: binary_search_angles does not return an index when the wrapped angles
\* of the slice it searches are not sorted: a search that went through its
\* "infinite recursion" guards returns only on sorted ones.
C8_UnsortedIsReported ==
    (pc = "search" /\ bs.kind = "return" /\ bs.calls >= 1) => FrameSorted(bs)

\* C9: on every slice, sorted or not, and every low <= high < len the search
\* never panics, never underflows in middle - 1, narrows high - low by at
\* least one with every recursive call (so it makes at most high - low
\* calls), and returns an index between the low and high it was called with.
C9_SearchTerminatesInRange ==
    pc = "search" =>
        /\ bs.kind \in {"call", "return"}
        /\ bs.low0 <= bs.low /\ bs.low <= bs.high /\ bs.high <= bs.high0
        /\ bs.calls + (bs.high - bs.low) <= bs.high0 - bs.low0

\* C9 witness: an index returned after two recursive calls on a slice whose
\* angles are not sorted.
C9_Witness ==
    /\ pc = "search"
    /\ bs.kind = "return"
    /\ bs.calls >= 2
    /\ ~FrameSorted(bs)

\* C10: on a strictly convex hull and a query point that is collinear with no
\* hull edge, the two edges the fast test checks include a hull edge whose
\* wedge around the centre contains the direction of the point, and the fast
\* test returns what the exact test returns.
C10_AgreeOffBoundary ==
    (pc = "queried" /\ StrictlyConvex(poly.hull) /\ ~OnEdgeLine(poly.hull, p)) =>
        /\ fast = exact
        /\ \E i \in 0..(Len(poly.hull) - 1) :
              InWedge(poly.hull, p, i) /\ EdgeTested(poly.hull, closest_node_by_angle, i)

\* C10 witness: a point inside the bounding box but outside a strictly convex
\* hull of at least 5 vertices, found by a search that recursed.
C10_Witness ==
    /\ pc = "queried"
    /\ Len(poly.hull) >= 5
    /\ StrictlyConvex(poly.hull)
    /\ ~OnEdgeLine(poly.hull, p)
    /\ p[1] >= poly.x_min /\ p[1] <= poly.x_max
    /\ p[2] >= poly.y_min /\ p[2] <= poly.y_max
    /\ ~exact
    /\ closest_node_by_angle >= 2

=============================================================================
